---- MODULE Spec2Model ----
(***************************************************************************)
(* Cattle nutrition advisor: the multi-target regression predictor         *)
(* (nutrition_model.py: NutritionPredictor) and the advisor around it      *)
(* (cattle_advisor.py: CattleNutritionAdvisor).                            *)
(*                                                                         *)
(* A fitted object (a StandardScaler or a RandomForestRegressor) is        *)
(* represented by the number of the train() call that fitted it; None is   *)
(* 0.  A Python dict is a function whose DOMAIN is the dict's key set.     *)
(* Floats are integers: weights in lbs, nutrient values in hundredths.     *)
(***************************************************************************)
EXTENDS Integers, Sequences, FiniteSets, TLC

VARIABLES
    model_type,   \* NutritionPredictor.model_type
    models,       \* NutritionPredictor.models: target -> fitted model
    scalers,      \* NutritionPredictor.scalers: [features, targets]
    disk,         \* the directory 'saved_models': models.joblib, scalers.joblib
    nfit,         \* number of train() calls that started fitting
    initialized,  \* a train() or a load_models() has returned normally
    saved,        \* predictor states on which save_models() was called
    ret,          \* outcome of the last predictor operation
    trace,        \* calls made by the last get_nutrition_prediction
    aret,         \* outcome of the last advisor operation
    feed_ingredients,  \* CattleNutritionAdvisor.feed_ingredients
    predictions,  \* the prediction record the caller holds
    prev,         \* the generate_feed_recommendation call before the last
    cur           \* the last generate_feed_recommendation call

predictorVars == <<model_type, models, scalers, disk, nfit, initialized, saved, ret>>

advisorVars == <<trace, aret>>

assembleVars == <<feed_ingredients, predictions, prev, cur>>

----------------------------------------------------------------------------
(* Bounds *)

MaxTrains == 2

MaxExcluded == 2

----------------------------------------------------------------------------
(* NutritionPredictor.__init__ *)

None == 0

feature_columns == <<"type", "target_weight", "Body weight (lbs)", "ADG (lbs)">>

target_columns ==
    << "DM Intake (lbs/day)", "TDN (% DM)", "NEm (Mcal/lb)",
       "NEg (Mcal/lb)", "CP (% DM)", "Ca (%DM)", "P (% DM)",
       "TDN (lbs)", "NEm (Mcal)", "NEg (Mcal)", "CP (lbs)",
       "Ca (grams)", "P (grams)" >>

Range(s) == {s[i] : i \in DOMAIN s}

Targets == Range(target_columns)

Features == Range(feature_columns)

EmptyDict == [k \in {} |-> None]

\* d[k] = v on a dict
DictSet(d, k, v) == [x \in (DOMAIN d) \cup {k} |-> IF x = k THEN v ELSE d[x]]

ModelTypes == {"random_forest", "linear"}

NoRet == [op |-> "init", status |-> "ok", exc |-> "", value |-> EmptyDict]

Returned(op, value) == [op |-> op, status |-> "ok", exc |-> "", value |-> value]

Raised(op, exc) == [op |-> op, status |-> "raised", exc |-> exc, value |-> EmptyDict]

NewScalers == [features |-> None, targets |-> EmptyDict]

NoDisk == [hasModels |-> FALSE, models |-> EmptyDict,
           hasScalers |-> FALSE, scalers |-> NewScalers]

PredictorInit(mt) ==
    /\ model_type = mt
    /\ models = EmptyDict
    /\ scalers = NewScalers
    /\ disk = NoDisk
    /\ nfit = 0
    /\ initialized = FALSE
    /\ saved = {}
    /\ ret = NoRet

----------------------------------------------------------------------------
(* NutritionPredictor._get_model: TRUE when a model is returned, FALSE     *)
(* when ValueError("Unknown model type") is raised.                        *)

_get_model(mt) == mt = "random_forest"

----------------------------------------------------------------------------
(* NutritionPredictor.train.  A dataset is the set of its column names, or *)
(* Unreadable when pd.read_csv raises.                                     *)

Unreadable == {"<unreadable>"}

AllColumns == Features \cup Targets

Datasets ==
    { AllColumns,
      Unreadable,
      AllColumns \ {"ADG (lbs)"},
      AllColumns \ {"DM Intake (lbs/day)"},
      AllColumns \ {"P (% DM)"},
      AllColumns \ {"P (grams)"} }

\* the loop "for target in self.target_columns", from the i-th target on
RECURSIVE TrainLoop(_, _, _, _, _, _)
TrainLoop(m, s, i, df, v, mt) ==
    IF i > Len(target_columns)
    THEN [models |-> m, scalers |-> s, exc |-> ""]
    ELSE LET target == target_columns[i]
             s1 == [s EXCEPT !.targets = DictSet(s.targets, target, v)]
         IN  IF target \notin df
             THEN [models |-> m, scalers |-> s, exc |-> "KeyError"]
             ELSE IF ~_get_model(mt)
             THEN [models |-> m, scalers |-> s1, exc |-> "ValueError"]
             ELSE TrainLoop(DictSet(m, target, v), s1, i + 1, df, v, mt)

\* the state train() leaves behind and the exception it raises ("" if none)
train(m, s, df, v, mt) ==
    IF df = Unreadable
    THEN [models |-> m, scalers |-> s, exc |-> "FileNotFoundError"]
    ELSE IF ~(Features \subseteq df)
    THEN [models |-> m, scalers |-> s, exc |-> "KeyError"]
    ELSE TrainLoop(m, [s EXCEPT !.features = v], 1, df, v, mt)

Train(df) ==
    /\ nfit < MaxTrains
    /\ LET r == train(models, scalers, df, nfit + 1, model_type)
       IN  /\ models' = r.models
           /\ scalers' = r.scalers
           /\ nfit' = IF r.scalers = scalers /\ r.models = models THEN nfit ELSE nfit + 1
           /\ initialized' = (initialized \/ r.exc = "")
           /\ ret' = IF r.exc = "" THEN Returned("train", EmptyDict)
                                   ELSE Raised("train", r.exc)
    /\ UNCHANGED <<model_type, disk, saved>>
    /\ UNCHANGED <<advisorVars, assembleVars>>

----------------------------------------------------------------------------
(* NutritionPredictor.predict *)

\* adg is in tenths of a lb
PredictInputs == { <<1, 1000, 600, 25>>, <<2, 2000, 1050, 5>> }

\* the loop "for target in self.target_columns", from the i-th target on
RECURSIVE PredictLoop(_, _, _, _, _)
PredictLoop(m, s, x, i, preds) ==
    IF i > Len(target_columns)
    THEN Returned("predict", preds)
    ELSE LET target == target_columns[i]
         IN  IF target \notin DOMAIN m \/ target \notin DOMAIN s.targets
             THEN Raised("predict", "KeyError")
             ELSE PredictLoop(m, s, x, i + 1,
                      DictSet(preds, target,
                              [model |-> m[target], features |-> s.features,
                               target |-> s.targets[target], x |-> x]))

predict(m, s, x) ==
    IF s.features = None
    THEN Raised("predict", "AttributeError")
    ELSE PredictLoop(m, s, x, 1, EmptyDict)

Predict(x) ==
    /\ ret' = predict(models, scalers, x)
    /\ UNCHANGED <<model_type, models, scalers, disk, nfit, initialized, saved>>
    /\ UNCHANGED <<advisorVars, assembleVars>>

----------------------------------------------------------------------------
(* NutritionPredictor.save_models.  fail names the call that raises:       *)
(* "makedirs" (or the first dump) before anything is written, "scalers"    *)
(* the second joblib.dump, after models.joblib has been written.           *)

SaveFailures == {"none", "makedirs", "scalers"}

save_models(d, m, s, fail) ==
    IF fail = "makedirs" THEN d
    ELSE IF fail = "scalers" THEN [d EXCEPT !.hasModels = TRUE, !.models = m]
    ELSE [hasModels |-> TRUE, models |-> m, hasScalers |-> TRUE, scalers |-> s]

SaveModels(fail) ==
    /\ disk' = save_models(disk, models, scalers, fail)
    /\ saved' = saved \cup {[models |-> models, scalers |-> scalers]}
    /\ ret' = IF fail = "none" THEN Returned("save", EmptyDict)
                               ELSE Raised("save", "OSError")
    /\ UNCHANGED <<model_type, models, scalers, nfit, initialized>>
    /\ UNCHANGED <<advisorVars, assembleVars>>

----------------------------------------------------------------------------
(* NutritionPredictor.load_models *)

load_models(m, s, d) ==
    IF ~d.hasModels
    THEN [models |-> m, scalers |-> s, exc |-> "FileNotFoundError"]
    ELSE IF ~d.hasScalers
    THEN [models |-> d.models, scalers |-> s, exc |-> "FileNotFoundError"]
    ELSE [models |-> d.models, scalers |-> d.scalers, exc |-> ""]

LoadModels ==
    /\ LET r == load_models(models, scalers, disk)
       IN  /\ models' = r.models
           /\ scalers' = r.scalers
           /\ initialized' = (initialized \/ r.exc = "")
           /\ ret' = IF r.exc = "" THEN Returned("load", EmptyDict)
                                   ELSE Raised("load", r.exc)
    /\ UNCHANGED <<model_type, disk, nfit, saved>>
    /\ UNCHANGED <<advisorVars, assembleVars>>

----------------------------------------------------------------------------
(* CattleNutritionAdvisor.__init__: the static tables *)

type_mapping ==
    [ct \in {"growing_steer_heiver", "growing_yearlings", "growing_mature_bulls"} |->
        CASE ct = "growing_steer_heiver" -> 0
          [] ct = "growing_yearlings" -> 1
          [] ct = "growing_mature_bulls" -> 2]

\* the keys of validation_rules, in insertion order
validation_keys ==
    <<"growing_mature_bulls", "growing_steer_heiver", "growing_yearlings">>

validation_rules ==
    [ct \in Range(validation_keys) |->
        CASE ct = "growing_mature_bulls" -> [max_target_weight |-> 2300]
          [] ct = "growing_steer_heiver" -> [max_target_weight |-> 1400]
          [] ct = "growing_yearlings" -> [max_target_weight |-> 1400]]

\* a number of the table: an int literal (58) or a float literal (0.50),
\* held in hundredths
I(n) == [kind |-> "int", h |-> 100 * n]

F(h) == [kind |-> "float", h |-> h]

Ingredient(name, tdn, nem, neg, cp, ca, p) ==
    [name |-> name,
     values |-> [TDN |-> tdn, NEm |-> nem, NEg |-> neg, CP |-> cp, Ca |-> ca, P |-> p]]

\* the dict feed_ingredients as the sequence of its items, in insertion order
FeedIngredients ==
    << Ingredient("Alfalfa Hay", I(58), F(50), F(30), I(17), F(120), F(22)),
       Ingredient("Corn Silage", I(65), F(60), F(35), I(8), F(30), F(22)),
       Ingredient("Soybean Meal (48%)", I(82), F(70), F(40), I(48), F(30), F(65)),
       Ingredient("Ground Corn", I(88), F(90), F(65), I(9), F(2), F(28)),
       Ingredient("Dicalcium Phosphate", I(0), I(0), I(0), I(0), F(2300), F(1800)),
       Ingredient("Trace Mineral Mix", I(0), I(0), I(0), I(0), F(1200), F(800)),
       Ingredient("Salt", I(0), I(0), I(0), I(0), F(0), F(0)) >>

NoCall == [unavailable |-> <<>>, status |-> "none", prompt |-> <<>>]

AdvisorIdle ==
    /\ trace = <<>>
    /\ aret = NoRet
    /\ feed_ingredients = FeedIngredients
    /\ predictions = EmptyDict
    /\ prev = NoCall
    /\ cur = NoCall

----------------------------------------------------------------------------
(* CattleNutritionAdvisor._validate_input.  The reason is the sequence of  *)
(* the pieces of the formatted string.                                     *)

\* sep.join(seq)
RECURSIVE Join(_, _)
Join(sep, seq) ==
    IF Len(seq) = 0 THEN <<>>
    ELSE IF Len(seq) = 1 THEN <<seq[1]>>
    ELSE <<seq[1], sep>> \o Join(sep, Tail(seq))

\* _validate_input with the cap test written >= instead of >
ValidateInputCapInclusive(cattle_type, target_weight) ==
    IF cattle_type \notin DOMAIN validation_rules
    THEN <<FALSE, <<"Invalid cattle type. Must be one of: ">> \o Join(", ", validation_keys)>>
    ELSE LET max_weight == validation_rules[cattle_type].max_target_weight
         IN  IF target_weight >= max_weight
             THEN <<FALSE, <<"Target weight for ", cattle_type, " should not exceed ",
                             ToString(max_weight),
                             " lbs. Please consult an expert for higher weights.">> >>
             ELSE <<TRUE, <<>> >>

_validate_input(cattle_type, target_weight) ==
    IF cattle_type \notin DOMAIN validation_rules
    THEN <<FALSE, <<"Invalid cattle type. Must be one of: ">> \o Join(", ", validation_keys)>>
    ELSE LET max_weight == validation_rules[cattle_type].max_target_weight
         IN  IF target_weight > max_weight
             THEN <<FALSE, <<"Target weight for ", cattle_type, " should not exceed ",
                             ToString(max_weight),
                             " lbs. Please consult an expert for higher weights.">> >>
             ELSE <<TRUE, <<>> >>

CattleTypes == Range(validation_keys) \cup {"dairy_cow"}

TargetWeights == {1000, 1399, 1400, 1401, 2000, 2299, 2300, 2301}

ValidateInput(cattle_type, target_weight) ==
    /\ aret' = Returned("_validate_input",
                        [cattle_type |-> cattle_type, target_weight |-> target_weight,
                         result |-> _validate_input(cattle_type, target_weight)])
    /\ trace' = <<>>
    /\ UNCHANGED predictorVars
    /\ UNCHANGED assembleVars

----------------------------------------------------------------------------
(* CattleNutritionAdvisor.get_nutrition_prediction *)

ValidateEvent(cattle_type, target_weight, r) ==
    [call |-> "_validate_input", cattle_type |-> cattle_type,
     target_weight |-> target_weight, accepted |-> r[1]]

PredictEvent(x) == [call |-> "predict", x |-> x]

\* get_nutrition_prediction without "if not is_valid: raise ValueError"
GetNutritionPredictionUnchecked(cattle_type, target_weight, body_weight, adg, m, s) ==
    LET v == _validate_input(cattle_type, target_weight)
        t1 == <<ValidateEvent(cattle_type, target_weight, v)>>
    IN  IF cattle_type \notin DOMAIN type_mapping
        THEN [trace |-> t1, ret |-> NoRet,
              aret |-> Raised("get_nutrition_prediction", "KeyError")]
        ELSE LET x == <<type_mapping[cattle_type], target_weight, body_weight, adg>>
                 r == predict(m, s, x)
             IN  [trace |-> t1 \o <<PredictEvent(x)>>, ret |-> r,
                  aret |-> [r EXCEPT !.op = "get_nutrition_prediction"]]

\* the calls made, in order, and what the method returns or raises
get_nutrition_prediction(cattle_type, target_weight, body_weight, adg, m, s) ==
    LET v == _validate_input(cattle_type, target_weight)
        t1 == <<ValidateEvent(cattle_type, target_weight, v)>>
    IN  IF ~v[1]
        THEN [trace |-> t1, ret |-> NoRet,
              aret |-> [Raised("get_nutrition_prediction", "ValueError")
                            EXCEPT !.value = v[2]]]
        ELSE IF cattle_type \notin DOMAIN type_mapping
        THEN [trace |-> t1, ret |-> NoRet,
              aret |-> Raised("get_nutrition_prediction", "KeyError")]
        ELSE LET x == <<type_mapping[cattle_type], target_weight, body_weight, adg>>
                 r == predict(m, s, x)
             IN  [trace |-> t1 \o <<PredictEvent(x)>>, ret |-> r,
                  aret |-> [r EXCEPT !.op = "get_nutrition_prediction"]]

BodyWeights == {600}

Adgs == {5, 25}

GetNutritionPrediction(cattle_type, target_weight, body_weight, adg) ==
    /\ LET g == get_nutrition_prediction(cattle_type, target_weight, body_weight, adg,
                                         models, scalers)
       IN  /\ trace' = g.trace
           /\ aret' = g.aret
           /\ ret' = IF g.ret = NoRet THEN ret ELSE g.ret
    /\ UNCHANGED <<model_type, models, scalers, disk, nfit, initialized, saved>>
    /\ UNCHANGED assembleVars

----------------------------------------------------------------------------
(* CattleNutritionAdvisor.generate_feed_recommendation.  The prompt is the *)
(* record of its variable parts (the fixed text between them is left out): *)
(* the formatted requirements, the ingredient rows, the note naming the    *)
(* unavailable ingredients and the formatted totals row.                   *)

\* v / q rounded to the nearest integer, ties to even
RoundHalfEven(v, q) ==
    LET f == v \div q
        r == v % q
    IN  IF 2 * r < q THEN f
        ELSE IF 2 * r > q THEN f + 1
        ELSE IF f % 2 = 0 THEN f ELSE f + 1

\* f"{v:.<decimals>f}" of a value in hundredths: the numeral with its point
\* dropped (12.25 is "12.2" under .1f, held as 122; the number of decimals
\* is fixed by the place in the prompt)
FormatFixed(v, decimals) ==
    IF decimals = 2 THEN v
    ELSE IF decimals = 1 THEN RoundHalfEven(v, 10)
    ELSE RoundHalfEven(v, 100)

\* predictions.get(key, 0)
Get(d, key, default) == IF key \in DOMAIN d THEN d[key] ELSE default

\* str() of a number of the ingredient table, as the numeral's integer part
\* followed by the digits after the point (none for an int; a float keeps at
\* least one and drops a trailing zero): 58 -> <<58>>, 0.50 -> <<0, 5>>,
\* 0.02 -> <<0, 0, 2>>, 23.00 -> <<23, 0>>
Str(value) ==
    IF value.kind = "int" THEN <<value.h \div 100>>
    ELSE IF value.h % 10 = 0 THEN <<value.h \div 100, (value.h % 100) \div 10>>
    ELSE <<value.h \div 100, (value.h % 100) \div 10, value.h % 10>>

\* the (key, format) pairs of lines 86-92, in the order they are read
RequirementFields ==
    << <<"DM Intake (lbs/day)", 1>>,
       <<"TDN (% DM)", 1>>, <<"TDN (lbs)", 1>>,
       <<"NEm (Mcal/lb)", 2>>, <<"NEm (Mcal)", 1>>,
       <<"NEg (Mcal/lb)", 2>>, <<"NEg (Mcal)", 1>>,
       <<"CP (% DM)", 1>>, <<"CP (lbs)", 2>>,
       <<"Ca (%DM)", 2>>, <<"Ca (grams)", 0>>,
       <<"P (% DM)", 2>>, <<"P (grams)", 0>> >>

\* the (key, format) pairs of the **Total** row, line 128
TotalFields ==
    << <<"DM Intake (lbs/day)", 1>>, <<"TDN (lbs)", 1>>, <<"NEm (Mcal)", 1>>,
       <<"NEg (Mcal)", 1>>, <<"CP (lbs)", 2>>, <<"Ca (grams)", 0>>,
       <<"P (grams)", 0>> >>

FormatFields(p, fields) ==
    [i \in DOMAIN fields |-> FormatFixed(Get(p, fields[i][1], 0), fields[i][2])]

\* available_ingredients.pop(ingredient, None)
Pop(items, name) == SelectSeq(items, LAMBDA it : it.name # name)

\* for ingredient in unavailable_ingredients: available_ingredients.pop(...)
RECURSIVE PopAll(_, _)
PopAll(items, names) ==
    IF names = <<>> THEN items
    ELSE PopAll(Pop(items, Head(names)), Tail(names))

\* one row of the ingredient table, line 106
Row(it) ==
    <<it.name, Str(it.values.TDN), Str(it.values.NEm), Str(it.values.NEg),
      Str(it.values.CP), Str(it.values.Ca), Str(it.values.P)>>

\* generate_feed_recommendation popping from self.feed_ingredients itself
\* (the .copy() of line 100 left out)
GenerateFeedRecommendationNoCopy(fi, p, unavailable_ingredients) ==
    LET available_ingredients ==
            IF unavailable_ingredients # <<>>
            THEN PopAll(fi, unavailable_ingredients)
            ELSE fi
    IN  [feed_ingredients |-> available_ingredients,
         prompt |->
            [requirements |-> FormatFields(p, RequirementFields),
             table |-> [i \in DOMAIN available_ingredients |->
                            Row(available_ingredients[i])],
             note |-> IF unavailable_ingredients # <<>>
                      THEN Join(", ", unavailable_ingredients)
                      ELSE <<>>,
             totals |-> FormatFields(p, TotalFields)]]

\* the prompt built, and feed_ingredients as the call leaves it
generate_feed_recommendation(fi, p, unavailable_ingredients) ==
    LET copy == fi
        available_ingredients ==
            IF unavailable_ingredients # <<>>
            THEN PopAll(copy, unavailable_ingredients)
            ELSE copy
    IN  [feed_ingredients |-> fi,
         prompt |->
            [requirements |-> FormatFields(p, RequirementFields),
             table |-> [i \in DOMAIN available_ingredients |->
                            Row(available_ingredients[i])],
             note |-> IF unavailable_ingredients # <<>>
                      THEN Join(", ", unavailable_ingredients)
                      ELSE <<>>,
             totals |-> FormatFields(p, TotalFields)]]

\* names a caller may type: two of the table, and one that is not in it
ExcludedNames == {"Salt", "Trace Mineral Mix", "Molasses"}

RECURSIVE SeqsUpTo(_, _)
SeqsUpTo(S, n) ==
    IF n = 0 THEN {<<>>}
    ELSE LET shorter == SeqsUpTo(S, n - 1)
         IN  shorter \cup {Append(q, e) : q \in shorter, e \in S}

ExclusionLists == SeqsUpTo(ExcludedNames, MaxExcluded)

\* The call records the prompt handed to client.models.generate_content;
\* the reply of the text service is opaque and changes no state.
GenerateFeedRecommendation(unavailable_ingredients) ==
    /\ LET g == generate_feed_recommendation(feed_ingredients, predictions,
                                             unavailable_ingredients)
       IN  /\ feed_ingredients' = g.feed_ingredients
           /\ cur' = [unavailable |-> unavailable_ingredients,
                      status |-> "sent", prompt |-> g.prompt]
    /\ prev' = cur
    /\ UNCHANGED <<predictions, advisorVars, predictorVars>>

\* prediction records a caller may hand in (values in hundredths): two
\* complete ones, and ones that lack a key read under each of the formats
IndexOf(seq, e) == CHOOSE i \in DOMAIN seq : seq[i] = e

FullRecordA == [t \in Targets |-> 1225 + 100 * IndexOf(target_columns, t)]

FullRecordB == [t \in Targets |-> 50]

Without(d, key) == [k \in (DOMAIN d) \ {key} |-> d[k]]

MissingKeys == {"DM Intake (lbs/day)", "NEm (Mcal/lb)", "P (grams)"}

PredictionRecords ==
    {FullRecordA, FullRecordB} \cup {Without(FullRecordA, t) : t \in MissingKeys}

----------------------------------------------------------------------------

vars == <<predictorVars, advisorVars, assembleVars>>

Init == AdvisorIdle /\ \E mt \in ModelTypes : PredictorInit(mt)

Next ==
    \/ \E df \in Datasets : Train(df)
    \/ \E x \in PredictInputs : Predict(x)
    \/ \E fail \in SaveFailures : SaveModels(fail)
    \/ LoadModels

Spec == Init /\ [][Next]_vars

----------------------------------------------------------------------------
(* The advisor: CattleNutritionAdvisor.__init__ builds a predictor and     *)
(* loads 'saved_models', which a predictor saved earlier: a trained one,   *)
(* or one that was never trained.                                          *)

TrainedState == train(EmptyDict, NewScalers, AllColumns, 1, "random_forest")

Artifacts ==
    { save_models(NoDisk, TrainedState.models, TrainedState.scalers, "none"),
      save_models(NoDisk, EmptyDict, NewScalers, "none") }

InitAdvisor ==
    /\ \E d \in Artifacts :
          LET r == load_models(EmptyDict, NewScalers, d)
          IN  /\ r.exc = ""
              /\ disk = d
              /\ models = r.models
              /\ scalers = r.scalers
    /\ model_type = "random_forest"
    /\ nfit = 0
    /\ initialized = TRUE
    /\ saved = {}
    /\ ret = Returned("load", EmptyDict)
    /\ AdvisorIdle

NextAdvisor ==
    \/ \E ct \in CattleTypes, tw \in TargetWeights : ValidateInput(ct, tw)
    \/ \E ct \in CattleTypes, tw \in TargetWeights, bw \in BodyWeights, adg \in Adgs :
          GetNutritionPrediction(ct, tw, bw, adg)

SpecAdvisor == InitAdvisor /\ [][NextAdvisor]_vars

----------------------------------------------------------------------------
(* The assembler: the caller keeps one prediction record and calls         *)
(* generate_feed_recommendation with it repeatedly (main, lines 165-193).  *)

InitAssemble ==
    /\ PredictorInit("random_forest")
    /\ trace = <<>>
    /\ aret = NoRet
    /\ feed_ingredients = FeedIngredients
    /\ predictions \in PredictionRecords
    /\ prev = NoCall
    /\ cur = NoCall

NextAssemble ==
    \E u \in ExclusionLists : GenerateFeedRecommendation(u)

SpecAssemble == InitAssemble /\ [][NextAssemble]_vars

----------------------------------------------------------------------------
(* Properties of the input validator and of get_nutrition_prediction,      *)
(* checked under SpecAdvisor.                                              *)

\* the caps as the specification states them
StatedCap(ct) ==
    CASE ct = "growing_mature_bulls" -> 2300
      [] ct = "growing_steer_heiver" -> 1400
      [] ct = "growing_yearlings" -> 1400

StatedClasses == {"growing_mature_bulls", "growing_steer_heiver", "growing_yearlings"}

\* C1: _validate_input accepts a known breed class with target_weight <= its
\* cap, rejects target_weight > cap with a reason that contains the cap, and
\* rejects an unknown breed class with a reason that lists the valid names.
C1_ValidateCaps ==
    aret.op = "_validate_input" =>
        LET ct == aret.value.cattle_type
            tw == aret.value.target_weight
            accepted == aret.value.result[1]
            reason == aret.value.result[2]
        IN  /\ (ct \in StatedClasses /\ tw <= StatedCap(ct)) => accepted
            /\ (ct \in StatedClasses /\ tw > StatedCap(ct)) =>
                   (~accepted /\ ToString(StatedCap(ct)) \in Range(reason))
            /\ ct \notin StatedClasses =>
                   (~accepted /\ StatedClasses \subseteq Range(reason))

\* a weight above the cap was rejected, naming the cap
C1_Witness ==
    /\ aret.op = "_validate_input"
    /\ aret.value.cattle_type = "growing_yearlings"
    /\ aret.value.target_weight = 2000
    /\ aret.value.result[1] = FALSE
    /\ "1400" \in Range(aret.value.result[2])

----------------------------------------------------------------------------
(* Properties of the predictor's lifecycle, checked under Spec.            *)

\* every target has a model and a scaler, and the feature scaler is fitted
Complete(m, s) ==
    /\ s.features # None
    /\ DOMAIN m = Targets
    /\ DOMAIN s.targets = Targets

\* C3: predict on a predictor on which neither train nor load has completed
\* fails with an uninitialized-model error, returns no record and leaves the
\* predictor's state unchanged.
C3_UninitializedError ==
    [][ (ret'.op = "predict" /\ ~initialized') =>
            /\ ret'.status = "raised"
            /\ ret'.exc = "UninitializedModelError"
            /\ ret'.value = EmptyDict
            /\ UNCHANGED <<models, scalers>> ]_vars

\* the artifact on disk holds the feature scaler and all 13 (scaler, model) pairs
ArtifactComplete(d) ==
    d.hasModels /\ d.hasScalers /\ Complete(d.models, d.scalers)

\* C4: load reports success only if the artifact holds the feature scaler and
\* a (scaler, model) pair for each of the 13 targets, and a failed load leaves
\* no partially restored state.
C4_LoadValidates ==
    [][ ret'.op = "load" =>
            /\ ret'.status = "ok" => (ArtifactComplete(disk) /\ Complete(models', scalers'))
            /\ ret'.status = "raised" => UNCHANGED <<models, scalers>> ]_vars

\* the objects fitted by train call v
FittedBy(m, s, v) ==
    {<<"model", t>> : t \in {u \in DOMAIN m : m[u] = v}}
        \cup {<<"scaler", t>> : t \in {u \in DOMAIN s.targets : s.targets[u] = v}}
        \cup (IF s.features = v THEN {<<"features", "">>} ELSE {})

AllFitted ==
    {<<"model", t>> : t \in Targets} \cup {<<"scaler", t>> : t \in Targets}
        \cup {<<"features", "">>}

\* C5: a train that fails on a missing column retains no partial model set:
\* the call has fitted none of the feature scaler, target scalers and models.
C5_NoPartialTrain ==
    [][ (ret'.op = "train" /\ ret'.exc = "KeyError") =>
            FittedBy(models', scalers', nfit + 1) \in {{}, AllFitted} ]_vars

\* C6: once a train or a load has completed, predict on a validated input
\* returns a record whose key set is exactly the 13 targets.
C6_PredictThirteenKeys ==
    (ret.op = "predict" /\ initialized) =>
        (ret.status = "ok" /\ DOMAIN ret.value = Targets)

\* C9: what a predictor holds after a load is one saved predictor state (or,
\* when the load changed nothing, the state it held), never a mix.
C9_AtomicRestore ==
    [][ ret'.op = "load" =>
            \/ UNCHANGED <<models, scalers>>
            \/ [models |-> models', scalers |-> scalers'] \in saved ]_vars

----------------------------------------------------------------------------
(* Properties of generate_feed_recommendation, checked under SpecAssemble. *)

Count(seq, e) == Cardinality({i \in DOMAIN seq : seq[i] = e})

\* the same names, in some order
IsPermutation(a, b) ==
    /\ Len(a) = Len(b)
    /\ \A e \in Range(a) \cup Range(b) : Count(a, e) = Count(b, e)

\* C7: two calls with the same prediction record and exclusion lists holding
\* the same names in a different order build the same prompt.
C7_OrderIndependent ==
    (prev.status = "sent" /\ cur.status = "sent"
        /\ IsPermutation(prev.unavailable, cur.unavailable)) =>
            prev.prompt = cur.prompt

\* the ingredients that are not named in the list u, in the table's order
Kept(u) == SelectSeq(FeedIngredients, LAMBDA it : it.name \notin Range(u))

\* C8: the ingredient table of the prompt holds exactly the ingredients of
\* the static table that the exclusion list does not name, each with its
\* stored values; names that are not in the table are ignored.
C8_ExclusionCorrect ==
    cur.status = "sent" =>
        /\ Len(cur.prompt.table) = Len(Kept(cur.unavailable))
        /\ \A i \in DOMAIN cur.prompt.table :
               /\ cur.prompt.table[i][1] = Kept(cur.unavailable)[i].name
               /\ cur.prompt.table[i] = Row(Kept(cur.unavailable)[i])
        /\ (cur.unavailable = <<"Salt", "Trace Mineral Mix">> =>
               [i \in DOMAIN cur.prompt.table |-> cur.prompt.table[i][1]]
                   = <<"Alfalfa Hay", "Corn Silage", "Soybean Meal (48%)",
                       "Ground Corn", "Dicalcium Phosphate">>)

\* Salt and Trace Mineral Mix were excluded after an earlier call, and an
\* unknown name was excluded without error
C8_Witness ==
    /\ prev.status = "sent"
    /\ prev.unavailable = <<"Molasses", "Salt">>
    /\ Len(prev.prompt.table) = 6
    /\ cur.status = "sent"
    /\ cur.unavailable = <<"Salt", "Trace Mineral Mix">>
    /\ Len(cur.prompt.table) = 5

\* the keys generate_feed_recommendation reads
KeysRead == {RequirementFields[i][1] : i \in DOMAIN RequirementFields}
                \cup {TotalFields[i][1] : i \in DOMAIN TotalFields}

\* C10: a prediction record that lacks a key the assembler reads is surfaced
\* as an error, not replaced by a default in the prompt.
C10_MissingKeyIsError ==
    (cur.status # "none" /\ ~(KeysRead \subseteq DOMAIN predictions)) =>
        cur.status = "raised"

====
